---- MODULE Spec2Model ----
(***************************************************************************)
(* A model of src/src/rembert.py: the training script of the chaii         *)
(* Hindi/Tamil question-answering repository.                              *)
(*                                                                         *)
(*   Spec         the script: argument parsing, train_fold step by step,   *)
(*                and a second invocation of the script after the first.   *)
(*   SpecHead     CustomRemBertForQuestionAnswering.forward applied to     *)
(*                bounded encoder outputs and head parameters.             *)
(*   SpecLoss     the same forward applied to bounded label positions.     *)
(***************************************************************************)
EXTENDS Integers, Sequences, FiniteSets, TLC

VARIABLES
    input_dir,       \* the CSV files under ../input/
    tokenizer,       \* module global, line 32
    pad_on_right,    \* module global, line 33
    pc,              \* the statement the running script is at
    args,            \* the argparse namespace of __main__
    frame,           \* the local variables of train_fold
    steps,           \* the steps of train_fold completed so far, in order
    calls,           \* how many times train_fold has been called by this invocation
    invocation,      \* which invocation of the script is running
    used_dirs,       \* the (fold, output directory) of the earlier invocations
    sequence_output, \* forward: outputs[0] of the encoder
    end_outputs,     \* forward: self.end_outputs
    start_outputs,   \* forward: self.start_outputs
    start_positions, \* forward: argument
    end_positions,   \* forward: argument
    return_dict,     \* forward: argument, after line 56
    result           \* forward: what the call returned

scriptVars == <<input_dir, tokenizer, pad_on_right, pc, args, frame, steps, calls,
                invocation, used_dirs>>
forwardVars == <<sequence_output, end_outputs, start_outputs, start_positions,
                 end_positions, return_dict, result>>
vars == <<scriptVars, forwardVars>>

----------------------------------------------------------------------------
(* Bounds of the model. *)

MaxRows == 3        \* rows over all five CSV files together
MaxKfold == 1       \* the kfold column holds 0..MaxKfold, or is missing
MaxBatch == 2       \* sequences per batch
MaxSeqLen == 2      \* tokens per sequence
HiddenSize == 2     \* config.hidden_size
MaxOutside == 1     \* how far a label position may lie outside 0..L-1

\* The values --fold is given in the model: a negative, zero, one-digit and
\* two-digit integers; None stands for an omitted flag.
FoldInts == {-1, 0, 1, 10}
Invocations == {1, 2}

----------------------------------------------------------------------------
(* Program constants. *)

MODEL_CHECKPOINT == "google/rembert"
POST_FIX == "_REMBERT_WITH_SQUADV2_TYDIQA_384"
MAX_LENGTH == 384
DOC_STRIDE == 128
MODEL_CLASS == "CustomRemBertForQuestionAnswering"
TrainCopies == 5

----------------------------------------------------------------------------
(* Python values. *)

\* A pandas cell: a value, or NaN for a missing one.
Cell(v) == [nan |-> FALSE, val |-> v]
NaN == [nan |-> TRUE, val |-> 0]

\* An optional int as argparse yields it for --fold (type=int, no default).
NoneValue == [none |-> TRUE, val |-> 0]
IntValue(n) == [none |-> FALSE, val |-> n]
FoldArgs == {NoneValue} \cup {IntValue(n) : n \in FoldInts}

DigitStr(d) ==
    CASE d = 0 -> "0" [] d = 1 -> "1" [] d = 2 -> "2" [] d = 3 -> "3" [] d = 4 -> "4"
      [] d = 5 -> "5" [] d = 6 -> "6" [] d = 7 -> "7" [] d = 8 -> "8" [] d = 9 -> "9"

RECURSIVE NatStr(_)
NatStr(n) == IF n < 10 THEN DigitStr(n) ELSE NatStr(n \div 10) \o DigitStr(n % 10)

\* str(n) of a Python int.
IntStr(n) == IF n < 0 THEN "-" \o NatStr(-n) ELSE NatStr(n)

\* How an f-string formats the value of --fold.
FormatFold(fold) == IF fold.none THEN "None" ELSE IntStr(fold.val)

\* Local variables: a function from names to values.
Bind(f, name, v) == [n \in (DOMAIN f) \cup {name} |-> IF n = name THEN v ELSE f[n]]
Del(f, names) == [n \in (DOMAIN f) \ names |-> f[n]]
NoLocals == [n \in {} |-> 0]

----------------------------------------------------------------------------
(* pandas: a data frame is its columns and its rows in order; a row is a   *)
(* record of its cells by column, with its index label (idx) and, to tell  *)
(* rows apart, the file (src) and line (row) it was read from.             *)

Meta == {"idx", "src", "row"}

DataFrame(columns, rows) == [columns |-> columns, rows |-> rows]

\* pd.read_csv of a file with the given header and lines.
ReadCsv(name, header, lines) ==
    DataFrame(header,
        [i \in 1..Len(lines) |->
            [c \in header \cup Meta |->
                CASE c = "idx" -> i - 1
                  [] c = "src" -> name
                  [] c = "row" -> i
                  [] OTHER -> lines[i][c]]])

\* series == scalar and series != scalar, element by element: a missing cell
\* equals nothing, and nothing equals None.
SeriesEq(cell, scalar) == ~cell.nan /\ ~scalar.none /\ cell.val = scalar.val
\* A mutant of SeriesNe: a missing cell is unequal to nothing.
SeriesNeNotMissing(cell, scalar) == ~cell.nan /\ ~SeriesEq(cell, scalar)
SeriesNe(cell, scalar) == ~SeriesEq(cell, scalar)

\* A column of a frame, as the series of its cells.
Series(df, col) == [i \in 1..Len(df.rows) |-> df.rows[i][col]]

RECURSIVE Masked(_, _)
Masked(rows, mask) ==
    IF rows = <<>> THEN <<>>
    ELSE (IF Head(mask) THEN <<Head(rows)>> ELSE <<>>) \o Masked(Tail(rows), Tail(mask))

\* df[mask]: the rows the boolean series mask holds for.
Where(df, mask) == DataFrame(df.columns, Masked(df.rows, mask))

ResetIndexDrop(df) ==
    DataFrame(df.columns, [i \in 1..Len(df.rows) |-> [df.rows[i] EXCEPT !.idx = i - 1]])

\* reset_index(): the old index becomes the column "index".
ResetIndex(df) ==
    DataFrame(df.columns \cup {"index"},
        [i \in 1..Len(df.rows) |->
            [c \in (DOMAIN df.rows[i]) \cup {"index"} |->
                CASE c = "index" -> Cell(df.rows[i].idx)
                  [] c = "idx" -> i - 1
                  [] OTHER -> df.rows[i][c]]])

Rename(df, old, new) ==
    DataFrame((df.columns \ {old}) \cup {new},
        [i \in 1..Len(df.rows) |->
            [c \in ((DOMAIN df.rows[i]) \ {old}) \cup {new} |->
                IF c = new THEN df.rows[i][old] ELSE df.rows[i][c]]])

\* df[col] = series.
SetColumn(df, col, series) ==
    DataFrame(df.columns \cup {col},
        [i \in 1..Len(df.rows) |->
            [c \in (DOMAIN df.rows[i]) \cup {col} |->
                IF c = col THEN series[i] ELSE df.rows[i][c]]])

\* A scalar assigned to a column: one cell per row.
Broadcast(df, v) == [i \in 1..Len(df.rows) |-> Cell(v)]

DropNa(df) ==
    Where(df, [i \in 1..Len(df.rows) |-> \A c \in df.columns : ~df.rows[i][c].nan])

RECURSIVE Flatten(_)
Flatten(frames) ==
    IF frames = <<>> THEN <<>> ELSE Head(frames).rows \o Flatten(Tail(frames))

\* pd.concat: the rows in order, each keeping its index label; a column a
\* frame lacks is NaN in its rows.
Concat(frames) ==
    LET rows == Flatten(frames)
        cols == UNION {frames[k].columns : k \in 1..Len(frames)}
    IN  DataFrame(cols,
            [i \in 1..Len(rows) |->
                [c \in cols \cup Meta |->
                    IF c \in DOMAIN rows[i] THEN rows[i][c] ELSE NaN]])

Repeat(n, x) == [i \in 1..n |-> x]

----------------------------------------------------------------------------
(* The inputs. *)

Text == Cell("text")
KfoldCells == {NaN} \cup {Cell(k) : k \in 0..MaxKfold}

InputDirs ==
    UNION {UNION {UNION {UNION {UNION {
        {[train_folds |-> [i \in 1..nt |-> [kfold |-> kf[i], answer_text |-> Text]],
          mlqa_hindi  |-> [i \in 1..nm |-> [answer_text |-> Text]],
          xquad       |-> [i \in 1..nx |-> [answer_text |-> Text]],
          squadv2     |-> [i \in 1..ns |-> [answer_text |-> IF sq[i] THEN NaN ELSE Text]],
          tydiqa      |-> [i \in 1..ny |-> [answer_text |-> IF ty[i] THEN NaN ELSE Text]]]
         : kf \in [1..nt -> KfoldCells], sq \in [1..ns -> BOOLEAN], ty \in [1..ny -> BOOLEAN]}
        : ny \in 0..(MaxRows - nt - nm - nx - ns)}
        : ns \in 0..(MaxRows - nt - nm - nx)}
        : nx \in 0..(MaxRows - nt - nm)}
        : nm \in 0..(MaxRows - nt)}
        : nt \in 0..MaxRows}

\* Lines 32-33: the tokenizer of the checkpoint and the side it pads on.
AutoTokenizer(checkpoint, side) == [checkpoint |-> checkpoint, padding_side |-> side]

ForwardIdle ==
    /\ sequence_output = <<>>
    /\ end_outputs = <<>>
    /\ start_outputs = <<>>
    /\ start_positions = <<>>
    /\ end_positions = <<>>
    /\ return_dict = TRUE
    /\ result = <<>>

Init ==
    /\ input_dir \in InputDirs
    /\ \E side \in {"right", "left"} : tokenizer = AutoTokenizer(MODEL_CHECKPOINT, side)
    /\ pad_on_right = (tokenizer.padding_side = "right")
    /\ pc = "parse_args"
    /\ args = NoLocals
    /\ frame = NoLocals
    /\ steps = <<>>
    /\ calls = 0
    /\ invocation = 1
    /\ used_dirs = {}
    /\ ForwardIdle

----------------------------------------------------------------------------
(* __main__, lines 195-200. *)

\* Lines 196-199: --fold is an int, or None when the flag is omitted.
ParseArgs ==
    /\ pc = "parse_args"
    /\ \E fold \in FoldArgs : args' = [fold |-> fold]
    /\ pc' = "call_train_fold"
    /\ UNCHANGED <<input_dir, tokenizer, pad_on_right, frame, steps, calls,
                   invocation, used_dirs, forwardVars>>

\* The fold __main__ hands to train_fold.
FoldArgument(namespace) == namespace.fold

\* Line 200, and lines 110-111: the call binds the parameters.
CallTrainFold ==
    /\ pc = "call_train_fold"
    /\ frame' = [fold |-> FoldArgument(args), model_class |-> MODEL_CLASS]
    /\ calls' = calls + 1
    /\ pc' = "read_folds"
    /\ UNCHANGED <<input_dir, tokenizer, pad_on_right, args, steps,
                   invocation, used_dirs, forwardVars>>

----------------------------------------------------------------------------
(* train_fold, lines 110-192. *)

\* Line 114.
SplitValid(train, fold) ==
    LET kfold == Series(train, "kfold")
    IN  ResetIndexDrop(Where(train, [i \in 1..Len(kfold) |-> SeriesEq(kfold[i], fold)]))

\* Line 115.
SplitTrain(train, fold) ==
    LET kfold == Series(train, "kfold")
    IN  ResetIndexDrop(Where(train, [i \in 1..Len(kfold) |-> SeriesNe(kfold[i], fold)]))

\* Lines 113-115.
LoadAndSplitFolds ==
    /\ pc = "read_folds"
    /\ LET train == ReadCsv("train_folds", {"kfold", "answer_text"}, input_dir.train_folds)
           valid == SplitValid(train, frame.fold)
       IN  frame' = Bind(Bind(frame, "valid", valid), "train", SplitTrain(train, frame.fold))
    /\ steps' = Append(steps, "load_and_split_folds")
    /\ pc' = "read_external"
    /\ UNCHANGED <<input_dir, tokenizer, pad_on_right, args, calls,
                   invocation, used_dirs, forwardVars>>

\* Line 122: "id" + the column as str.
ExternalId(ids) == [i \in 1..Len(ids) |-> Cell("id" \o IntStr(ids[i].val))]

\* Lines 119-122.
ExternalTrain(external_mlqa, external_xquad) ==
    LET both == Concat(<<external_mlqa, external_xquad>>)
        withFold == SetColumn(both, "fold", Broadcast(both, -1))
        withId == Rename(ResetIndex(withFold), "index", "id")
    IN  SetColumn(withId, "id", ExternalId(Series(withId, "id")))

\* Lines 117-125.
LoadExternal ==
    /\ pc = "read_external"
    /\ LET external_mlqa == ReadCsv("mlqa_hindi", {"answer_text"}, input_dir.mlqa_hindi)
           external_xquad == ReadCsv("xquad", {"answer_text"}, input_dir.xquad)
           f1 == Bind(frame, "external_mlqa", external_mlqa)
           f2 == Bind(f1, "external_xquad", external_xquad)
           f3 == Bind(f2, "external_train", ExternalTrain(external_mlqa, external_xquad))
           f4 == Bind(f3, "squadv2", DropNa(ReadCsv("squadv2", {"answer_text"}, input_dir.squadv2)))
       IN  frame' = Bind(f4, "tydiqa", DropNa(ReadCsv("tydiqa", {"answer_text"}, input_dir.tydiqa)))
    /\ steps' = Append(steps, "load_external")
    /\ pc' = "concat_train"
    /\ UNCHANGED <<input_dir, tokenizer, pad_on_right, args, calls,
                   invocation, used_dirs, forwardVars>>

\* A mutant of FinalTrain: the in-fold rows are not repeated.
FinalTrainOnce(tydiqa, squadv2, external_train, train) ==
    ResetIndexDrop(Concat(<<tydiqa, squadv2, external_train, train>>))

\* Line 127.
FinalTrain(tydiqa, squadv2, external_train, train) ==
    ResetIndexDrop(Concat(<<tydiqa, squadv2, external_train>> \o Repeat(TrainCopies, train)))

ConcatTrain ==
    /\ pc = "concat_train"
    /\ frame' = Bind(frame, "train",
                     FinalTrain(frame.tydiqa, frame.squadv2, frame.external_train, frame.train))
    /\ steps' = Append(steps, "concat_train")
    /\ pc' = "convert_answers"
    /\ UNCHANGED <<input_dir, tokenizer, pad_on_right, args, calls,
                   invocation, used_dirs, forwardVars>>

\* Lines 129-133. convert_answers is imported from utils; what it returns
\* is kept as the pair of cells it is applied to.
ConvertAnswers ==
    /\ pc = "convert_answers"
    /\ LET Answers(df) == [i \in 1..Len(df.rows) |-> Cell(<<df.rows[i].answer_text>>)]
           train == SetColumn(frame.train, "answers", Answers(frame.train))
           valid == SetColumn(frame.valid, "answers", Answers(frame.valid))
           f1 == Bind(Bind(frame, "train", train), "valid", valid)
       IN  frame' = Bind(Bind(f1, "train_dataset", train), "valid_dataset", valid)
    /\ steps' = Append(steps, "convert_answers")
    /\ pc' = "tokenize_train"
    /\ UNCHANGED <<input_dir, tokenizer, pad_on_right, args, calls,
                   invocation, used_dirs, forwardVars>>

\* Lines 135-141: prepare_train_features with its keyword arguments bound.
PrepTrainFeatures ==
    [tokenizer |-> tokenizer, pad_on_right |-> pad_on_right,
     max_len |-> MAX_LENGTH, doc_stride |-> DOC_STRIDE]

\* Dataset.map(fn, batched=True, remove_columns=...): the features fn makes
\* of the examples, kept as the examples and the arguments fn was bound to.
Map(dataset, fn) ==
    [examples |-> [i \in 1..Len(dataset.rows) |->
                      <<dataset.rows[i].src, dataset.rows[i].row>>],
     tokenizer |-> fn.tokenizer, pad_on_right |-> fn.pad_on_right,
     max_len |-> fn.max_len, doc_stride |-> fn.doc_stride]

\* Lines 135-145.
TokenizeTrain ==
    /\ pc = "tokenize_train"
    /\ LET f1 == Bind(frame, "prep_train_features", PrepTrainFeatures)
       IN  frame' = Bind(f1, "tokenized_train_ds",
                         Map(frame.train_dataset, f1.prep_train_features))
    /\ steps' = Append(steps, "tokenize_train")
    /\ pc' = "tokenize_valid"
    /\ UNCHANGED <<input_dir, tokenizer, pad_on_right, args, calls,
                   invocation, used_dirs, forwardVars>>

\* Lines 146-148.
TokenizeValid ==
    /\ pc = "tokenize_valid"
    /\ frame' = Bind(frame, "tokenized_valid_ds",
                     Map(frame.valid_dataset, frame.prep_train_features))
    /\ steps' = Append(steps, "tokenize_valid")
    /\ pc' = "load_model"
    /\ UNCHANGED <<input_dir, tokenizer, pad_on_right, args, calls,
                   invocation, used_dirs, forwardVars>>

\* Line 150.
LoadModel ==
    /\ pc = "load_model"
    /\ frame' = Bind(frame, "model",
                     [class |-> frame.model_class, checkpoint |-> MODEL_CHECKPOINT])
    /\ steps' = Append(steps, "load_model")
    /\ pc' = "build_trainer"
    /\ UNCHANGED <<input_dir, tokenizer, pad_on_right, args, calls,
                   invocation, used_dirs, forwardVars>>

\* A mutant of OutputDir: the directory does not name the fold.
OutputDirWithoutFold(fold) == "models" \o POST_FIX \o "/FOLD"

\* Line 153.
OutputDir(fold) == "models" \o POST_FIX \o "/FOLD" \o FormatFold(fold)

\* A mutant of JaccardScore: max_len and doc_stride change places.
JaccardScoreSwapped(valid) ==
    [valid |-> [i \in 1..Len(valid.rows) |-> <<valid.rows[i].src, valid.rows[i].row>>],
     tokenizer |-> tokenizer, pad_on_right |-> pad_on_right,
     max_len |-> DOC_STRIDE, doc_stride |-> MAX_LENGTH]

\* Lines 179-185.
JaccardScore(valid) ==
    [valid |-> [i \in 1..Len(valid.rows) |-> <<valid.rows[i].src, valid.rows[i].row>>],
     tokenizer |-> tokenizer, pad_on_right |-> pad_on_right,
     max_len |-> MAX_LENGTH, doc_stride |-> DOC_STRIDE]

\* Lines 152-187.
BuildTrainer ==
    /\ pc = "build_trainer"
    /\ LET f1 == Bind(frame, "args", [output_dir |-> OutputDir(frame.fold)])
       IN  frame' = Bind(f1, "trainer",
                         [model |-> f1.model, args |-> f1.args,
                          train_dataset |-> f1.tokenized_train_ds,
                          eval_dataset |-> f1.tokenized_valid_ds,
                          tokenizer |-> tokenizer,
                          compute_metrics |-> JaccardScore(f1.valid),
                          state |-> "built"])
    /\ steps' = Append(steps, "build_trainer")
    /\ pc' = "train"
    /\ UNCHANGED <<input_dir, tokenizer, pad_on_right, args, calls,
                   invocation, used_dirs, forwardVars>>

\* Line 189, returning.
Train ==
    /\ pc = "train"
    /\ frame' = [frame EXCEPT !.trainer.state = "trained"]
    /\ steps' = Append(steps, "train")
    /\ pc' = "release"
    /\ UNCHANGED <<input_dir, tokenizer, pad_on_right, args, calls,
                   invocation, used_dirs, forwardVars>>

\* Line 189, raising what the framework raises: the script ends there.
TrainRaises ==
    /\ pc = "train"
    /\ frame' = [frame EXCEPT !.trainer.state = "raised"]
    /\ pc' = "raised"
    /\ UNCHANGED <<input_dir, tokenizer, pad_on_right, args, steps, calls,
                   invocation, used_dirs, forwardVars>>

Released == {"model", "trainer", "tokenized_train_ds", "tokenized_valid_ds",
             "train", "valid", "train_dataset", "valid_dataset"}

\* A mutant of Release: the release runs in place of trainer.train().
ReleaseBeforeTraining ==
    /\ pc = "train"
    /\ frame' = Del(frame, Released)
    /\ steps' = Append(steps, "release")
    /\ pc' = "exit"
    /\ UNCHANGED <<input_dir, tokenizer, pad_on_right, args, calls,
                   invocation, used_dirs, forwardVars>>

\* Lines 191-192; train_fold returns and the script ends.
Release ==
    /\ pc = "release"
    /\ frame' = Del(frame, Released)
    /\ steps' = Append(steps, "release")
    /\ pc' = "exit"
    /\ UNCHANGED <<input_dir, tokenizer, pad_on_right, args, calls,
                   invocation, used_dirs, forwardVars>>

\* The script is run again: a new process, the same files.
NextInvocation ==
    /\ pc \in {"exit", "raised"}
    /\ invocation + 1 \in Invocations
    /\ invocation' = invocation + 1
    /\ used_dirs' = used_dirs \cup {[fold |-> args.fold, output_dir |-> frame.args.output_dir]}
    /\ pc' = "parse_args"
    /\ args' = NoLocals
    /\ frame' = NoLocals
    /\ steps' = <<>>
    /\ calls' = 0
    /\ UNCHANGED <<input_dir, tokenizer, pad_on_right, forwardVars>>

Next ==
    \/ ParseArgs
    \/ CallTrainFold
    \/ LoadAndSplitFolds
    \/ LoadExternal
    \/ ConcatTrain
    \/ ConvertAnswers
    \/ TokenizeTrain
    \/ TokenizeValid
    \/ LoadModel
    \/ BuildTrainer
    \/ Train
    \/ TrainRaises
    \/ Release
    \/ NextInvocation

Spec == Init /\ [][Next]_vars

----------------------------------------------------------------------------
(* torch: a tensor is a sequence of sequences; numbers are integers.       *)

RECURSIVE Dot(_, _)
Dot(w, x) == IF w = <<>> THEN 0 ELSE Head(w) * Head(x) + Dot(Tail(w), Tail(x))

\* nn.Linear(in_features, 1) with the parameters it was initialised to.
NewLinear(in_features, weight, bias) ==
    [in_features |-> in_features, weight |-> weight, bias |-> bias]

\* A linear layer with one output, on the last dimension of a (B, T, in) tensor.
Linear(layer, x) ==
    [b \in 1..Len(x) |-> [t \in 1..Len(x[b]) |-> <<Dot(layer.weight, x[b][t]) + layer.bias>>]]

\* torch.cat((x, y), dim=-1) of two (B, T, .) tensors.
Cat(x, y) == [b \in 1..Len(x) |-> [t \in 1..Len(x[b]) |-> x[b][t] \o y[b][t]]]

\* squeeze(-1) of a (B, T, 1) tensor.
Squeeze3(x) == [b \in 1..Len(x) |-> [t \in 1..Len(x[b]) |-> x[b][t][1]]]

\* squeeze(-1) of a (B, 1) tensor.
Squeeze2(x) == [b \in 1..Len(x) |-> x[b][1]]

\* clamp(lo, hi), element by element, of a (B,) tensor.
Clamp(x, lo, hi) ==
    [b \in 1..Len(x) |-> IF x[b] < lo THEN lo ELSE IF x[b] > hi THEN hi ELSE x[b]]

\* CrossEntropyLoss(ignore_index)(logits, target): the mean of one term per
\* sample whose target is not ignore_index, kept as those terms: the sample
\* and the class whose log-probability it takes.
CrossEntropyLoss(ignore_index, logits, target) ==
    {[sample |-> b, class |-> target[b]] : b \in {i \in 1..Len(target) : target[i] # ignore_index}}

\* A tensor of label positions: (B,), or (B, 1) on multi-GPU; or None.
NoTensor == [none |-> TRUE, dims |-> 0, data |-> <<>>]
Tensor1(data) == [none |-> FALSE, dims |-> 1, data |-> data]
Tensor2(data) == [none |-> FALSE, dims |-> 2, data |-> [b \in 1..Len(data) |-> <<data[b]>>]]

\* Lines 83-86.
SqueezePositions(positions) ==
    IF positions.dims > 1 THEN Squeeze2(positions.data) ELSE positions.data

\* A mutant of StartInput: the end logit comes first.
StartInputEndFirst(sequence, end_logits) == Cat(end_logits, sequence)

\* Line 73.
StartInput(sequence, end_logits) == Cat(sequence, end_logits)

\* Lines 88-90.
ClampPositions(positions, ignored_index) == Clamp(positions, 0, ignored_index)

\* Lines 80-95.
TotalLoss(start_logits, end_logits, starts, ends) ==
    IF ~starts.none /\ ~ends.none
    THEN LET ignored_index == Len(start_logits[1])
             start_clamped == ClampPositions(SqueezePositions(starts), ignored_index)
             end_clamped == ClampPositions(SqueezePositions(ends), ignored_index)
         IN  [none |-> FALSE,
              start_loss |-> CrossEntropyLoss(ignored_index, start_logits, start_clamped),
              end_loss |-> CrossEntropyLoss(ignored_index, end_logits, end_clamped)]
    ELSE [none |-> TRUE, start_loss |-> {}, end_loss |-> {}]

\* Lines 97-107.
Output(total_loss, start_logits, end_logits) ==
    IF ~return_dict
    THEN [kind |-> "tuple",
          items |-> IF ~total_loss.none
                    THEN <<total_loss, start_logits, end_logits>>
                    ELSE <<start_logits, end_logits>>]
    ELSE [kind |-> "QuestionAnsweringModelOutput",
          items |-> <<total_loss, start_logits, end_logits>>]

\* Lines 42-107.
Forward ==
    /\ pc = "forward"
    /\ LET end_logits == Linear(end_outputs, sequence_output)
           start_logits_ == StartInput(sequence_output, end_logits)
           start_logits == Linear(start_outputs, start_logits_)
           total_loss == TotalLoss(Squeeze3(start_logits), Squeeze3(end_logits),
                                   start_positions, end_positions)
       IN  result' = Output(total_loss, Squeeze3(start_logits), Squeeze3(end_logits))
    /\ pc' = "forward_returned"
    /\ UNCHANGED <<input_dir, tokenizer, pad_on_right, args, frame, steps, calls,
                   invocation, used_dirs, sequence_output, end_outputs, start_outputs,
                   start_positions, end_positions, return_dict>>

\* What the caller reads from the result.
LossOf(r) ==
    IF r.kind = "tuple" /\ Len(r.items) = 2
    THEN [none |-> TRUE, start_loss |-> {}, end_loss |-> {}]
    ELSE r.items[1]
StartLogitsOf(r) == r.items[Len(r.items) - 1]
EndLogitsOf(r) == r.items[Len(r.items)]

\* The encoder outputs, head parameters and labels of the model.
TokenVectors ==
    {[h \in 1..HiddenSize |-> h],
     [h \in 1..HiddenSize |-> -1],
     [h \in 1..HiddenSize |-> IF h = 1 THEN 2 ELSE 0]}

\* Lines 39-40: a layer as initialised, one of two parameter settings.
Layers(in_features) ==
    {NewLinear(in_features, [i \in 1..in_features |-> i], 0),
     NewLinear(in_features, [i \in 1..in_features |-> IF i = in_features THEN -2 ELSE 1], 1)}

LabelTensors(B, T) ==
    {NoTensor}
    \cup {Tensor1(d) : d \in [1..B -> (0 - MaxOutside)..(T - 1 + MaxOutside)]}
    \cup {Tensor2(d) : d \in [1..B -> (0 - MaxOutside)..(T - 1 + MaxOutside)]}

ScriptIdle ==
    /\ input_dir = [train_folds |-> <<>>, mlqa_hindi |-> <<>>, xquad |-> <<>>,
                    squadv2 |-> <<>>, tydiqa |-> <<>>]
    /\ tokenizer = AutoTokenizer(MODEL_CHECKPOINT, "right")
    /\ pad_on_right = TRUE
    /\ args = NoLocals
    /\ frame = NoLocals
    /\ steps = <<>>
    /\ calls = 0
    /\ invocation = 1
    /\ used_dirs = {}

ForwardCall ==
    /\ ScriptIdle
    /\ pc = "forward"
    /\ return_dict \in BOOLEAN
    /\ result = <<>>

\* forward without labels, over encoder outputs and head parameters.
InitHead ==
    /\ ForwardCall
    /\ \E B \in 1..MaxBatch, T \in 1..MaxSeqLen :
          sequence_output \in [1..B -> [1..T -> TokenVectors]]
    /\ end_outputs \in Layers(HiddenSize)
    /\ start_outputs \in Layers(HiddenSize + 1)
    /\ start_positions = NoTensor
    /\ end_positions = NoTensor

\* forward over label positions, in and outside the sequence.
InitLoss ==
    /\ ForwardCall
    /\ \E B \in 1..MaxBatch, T \in 1..MaxSeqLen :
          /\ sequence_output = [b \in 1..B |-> [t \in 1..T |-> [h \in 1..HiddenSize |-> h]]]
          /\ start_positions \in LabelTensors(B, T)
          /\ end_positions \in LabelTensors(B, T)
    /\ end_outputs = NewLinear(HiddenSize, [i \in 1..HiddenSize |-> i], 0)
    /\ start_outputs = NewLinear(HiddenSize + 1, [i \in 1..(HiddenSize + 1) |-> i], 0)

NextForward == Forward

SpecHead == InitHead /\ [][NextForward]_vars

SpecLoss == InitLoss /\ [][NextForward]_vars

----------------------------------------------------------------------------
(* The properties. *)

Bound(name) == name \in DOMAIN frame

\* How many rows of df were read from line `line` of file src.
Count(df, src, line) ==
    Cardinality({j \in 1..Len(df.rows) : df.rows[j].src = src /\ df.rows[j].row = line})

TrainFoldsLines == 1..Len(input_dir.train_folds)

\* Line i of train_folds.csv has a kfold, and it is the fold given.
KfoldIs(i, fold) ==
    /\ ~input_dir.train_folds[i].kfold.nan
    /\ ~fold.none
    /\ input_dir.train_folds[i].kfold.val = fold.val

IsPrefix(s, t) == Len(s) <= Len(t) /\ \A i \in 1..Len(s) : s[i] = t[i]

\* C1: whatever fold is (a value no row has, or None), every row of
\* train_folds.csv is in exactly one of the validation set and the in-fold
\* training rows, the validation set is exactly the rows whose kfold is fold,
\* and no such row is part of the final training set.
C1_FoldsPartition ==
    /\ Bound("valid") =>
          \A i \in TrainFoldsLines :
              Count(frame.valid, "train_folds", i) = (IF KfoldIs(i, frame.fold) THEN 1 ELSE 0)
    /\ pc \in {"read_external", "concat_train"} =>
          /\ \A i \in TrainFoldsLines :
                Count(frame.valid, "train_folds", i) + Count(frame.train, "train_folds", i) = 1
          /\ Len(frame.valid.rows) + Len(frame.train.rows) = Len(input_dir.train_folds)
    /\ pc \in {"convert_answers", "tokenize_train", "tokenize_valid", "load_model",
               "build_trainer", "train", "release", "raised"} =>
          \A j \in 1..Len(frame.train.rows) :
              /\ ~SeriesEq(frame.train.rows[j].kfold, frame.fold)
              /\ frame.train.rows[j].src = "train_folds"
                    => ~KfoldIs(frame.train.rows[j].row, frame.fold)

C1_Witness ==
    /\ pc = "convert_answers"
    /\ ~frame.fold.none
    /\ \E i \in TrainFoldsLines : KfoldIs(i, frame.fold)
    /\ \E i \in TrainFoldsLines : input_dir.train_folds[i].kfold.nan
    /\ Len(frame.valid.rows) = 1

\* C2: an invocation calls train_fold once, with the fold of --fold; that
\* fold selects the validation rows and names the output directory
\* models<POST_FIX>/FOLD<fold>; an earlier invocation with another fold used
\* another directory.
C2_OneFoldPerInvocation ==
    /\ calls <= 1
    /\ pc \notin {"parse_args", "call_train_fold"} => calls = 1 /\ frame.fold = args.fold
    /\ Bound("valid") =>
          \A i \in TrainFoldsLines :
              Count(frame.valid, "train_folds", i) = (IF KfoldIs(i, args.fold) THEN 1 ELSE 0)
    /\ Bound("args") =>
          /\ frame.args.output_dir = "models" \o POST_FIX \o "/FOLD" \o FormatFold(args.fold)
          /\ \A u \in used_dirs :
                u.fold # args.fold => u.output_dir # frame.args.output_dir

C2_Witness ==
    /\ invocation = 2
    /\ pc = "exit"
    /\ \E u \in used_dirs : u.fold = IntValue(1) /\ args.fold = IntValue(10)

StepOrder ==
    <<"load_and_split_folds", "load_external", "concat_train", "convert_answers",
      "tokenize_train", "tokenize_valid", "load_model", "build_trainer", "train", "release">>

InRange(s, x) == \E i \in 1..Len(s) : s[i] = x

\* C3: the steps of train_fold happen in the one fixed order; training has
\* not started before both datasets are tokenized; model, trainer and
\* datasets are released only after training has returned.
C3_Sequential ==
    /\ IsPrefix(steps, StepOrder)
    /\ (Bound("trainer") /\ frame.trainer.state # "built") =>
          /\ Bound("tokenized_train_ds") /\ Bound("tokenized_valid_ds")
          /\ frame.trainer.train_dataset = frame.tokenized_train_ds
          /\ frame.trainer.eval_dataset = frame.tokenized_valid_ds
    /\ (Bound("args") /\ Released \cap DOMAIN frame # Released) =>
          /\ InRange(steps, "train")
          /\ Released \cap DOMAIN frame = {}
          /\ pc = "exit"
    /\ pc = "raised" => Released \subseteq DOMAIN frame

C3_Witness ==
    /\ pc = "exit"
    /\ steps = StepOrder
    /\ Released \cap DOMAIN frame = {}

\* The arguments features or the metric were built with.
FeatureArguments(x) ==
    <<x.tokenizer, x.pad_on_right, x.max_len, x.doc_stride>>

\* C6: training features, validation features and the metric are built with
\* the same tokenizer, padding side, maximum length 384 and document stride
\* 128, and the stride is smaller than the maximum length.
C6_SameFeatureArguments ==
    /\ Bound("tokenized_train_ds") =>
          /\ FeatureArguments(frame.tokenized_train_ds)
                = <<tokenizer, tokenizer.padding_side = "right", 384, 128>>
          /\ frame.tokenized_train_ds.doc_stride < frame.tokenized_train_ds.max_len
    /\ Bound("tokenized_valid_ds") =>
          FeatureArguments(frame.tokenized_valid_ds) = FeatureArguments(frame.tokenized_train_ds)
    /\ Bound("trainer") =>
          /\ FeatureArguments(frame.trainer.compute_metrics)
                = FeatureArguments(frame.trainer.train_dataset)
          /\ FeatureArguments(frame.trainer.compute_metrics)
                = FeatureArguments(frame.trainer.eval_dataset)
          /\ frame.trainer.tokenizer = frame.trainer.compute_metrics.tokenizer
          /\ frame.trainer.compute_metrics.doc_stride < frame.trainer.compute_metrics.max_len

C6_Witness ==
    /\ pc = "release"
    /\ tokenizer.padding_side = "left"
    /\ Len(frame.trainer.train_dataset.examples) > 0
    /\ Len(frame.trainer.eval_dataset.examples) > 0

HasFinalTrain ==
    pc \in {"convert_answers", "tokenize_train", "tokenize_valid", "load_model",
            "build_trainer", "train", "release", "raised"}

Missing(src, i) == input_dir[src][i].answer_text.nan

InFoldTraining == {i \in TrainFoldsLines : ~KfoldIs(i, frame.fold)}

\* C7: the final training set holds each complete row of tydiqa.csv and
\* squadv2.csv once and no incomplete one, each row of mlqa_hindi.csv and
\* xquad.csv once, each row of train_folds.csv outside the fold 5 times, and
\* nothing else; the validation rows are there once each.
C7_FinalTrainingSet ==
    HasFinalTrain =>
        /\ \A src \in {"tydiqa", "squadv2"} : \A i \in 1..Len(input_dir[src]) :
              Count(frame.train, src, i) = (IF Missing(src, i) THEN 0 ELSE 1)
        /\ \A src \in {"mlqa_hindi", "xquad"} : \A i \in 1..Len(input_dir[src]) :
              Count(frame.train, src, i) = 1
        /\ \A i \in TrainFoldsLines :
              Count(frame.train, "train_folds", i) = (IF i \in InFoldTraining THEN 5 ELSE 0)
        /\ Len(frame.train.rows) = Len(frame.tydiqa.rows) + Len(frame.squadv2.rows)
                              + Len(input_dir.mlqa_hindi) + Len(input_dir.xquad)
                              + 5 * Cardinality(InFoldTraining)
        /\ Len(frame.valid.rows) = Cardinality(TrainFoldsLines \ InFoldTraining)
        /\ \A i \in TrainFoldsLines \ InFoldTraining :
              Count(frame.valid, "train_folds", i) = 1

C7_Witness ==
    /\ pc = "tokenize_train"
    /\ \E i \in 1..Len(input_dir.tydiqa) : Missing("tydiqa", i)
    /\ Cardinality(InFoldTraining) = 1
    /\ Len(frame.valid.rows) = 1
    /\ Len(frame.train.rows) = 5

\* C8: no two rows of external_train have the same id.
C8_DistinctExternalIds ==
    Bound("external_train") =>
        \A i, j \in 1..Len(frame.external_train.rows) :
            i # j => frame.external_train.rows[i].id.val
                     # frame.external_train.rows[j].id.val

----------------------------------------------------------------------------
(* The properties of forward. *)

Returned == pc = "forward_returned"

\* C4: the end logit of a token is the end layer applied to that token's
\* encoder output (hidden_size inputs), its start logit is the start layer
\* applied to that output followed by its own end logit (hidden_size + 1
\* inputs), and there is one start and one end logit per token.
C4_HeadOrder ==
    Returned =>
        LET starts == StartLogitsOf(result)
            ends == EndLogitsOf(result)
        IN  /\ Len(starts) = Len(sequence_output) /\ Len(ends) = Len(sequence_output)
            /\ \A b \in 1..Len(sequence_output) :
                  /\ Len(starts[b]) = Len(sequence_output[b])
                  /\ Len(ends[b]) = Len(sequence_output[b])
                  /\ \A t \in 1..Len(sequence_output[b]) :
                        /\ Len(sequence_output[b][t]) = end_outputs.in_features
                        /\ start_outputs.in_features = end_outputs.in_features + 1
                        /\ ends[b][t] = Dot(end_outputs.weight, sequence_output[b][t])
                                        + end_outputs.bias
                        /\ starts[b][t] = Dot(start_outputs.weight,
                                              Append(sequence_output[b][t], ends[b][t]))
                                          + start_outputs.bias

C4_Witness ==
    /\ Returned
    /\ Len(sequence_output) = 2
    /\ Len(sequence_output[1]) = 2
    /\ EndLogitsOf(result)[1][1] # EndLogitsOf(result)[1][2]
    /\ StartLogitsOf(result)[1][1] # EndLogitsOf(result)[1][1]

\* The label positions as given, one per sequence.
Labels(positions) == [b \in 1..Len(positions.data) |->
                         IF positions.dims = 2 THEN positions.data[b][1] ELSE positions.data[b]]

\* The terms of a loss for sequence b.
TermsOf(loss, b) == {term \in loss : term.sample = b}

IgnoresOutside(loss, positions) ==
    \A b \in 1..Len(sequence_output) :
        LET p == Labels(positions)[b]
        IN  IF p \in 0..(Len(sequence_output[b]) - 1)
            THEN TermsOf(loss, b) = {[sample |-> b, class |-> p]}
            ELSE TermsOf(loss, b) = {}

\* C5: a label position outside 0..L-1 contributes no term to the start or
\* the end loss, and a position in 0..L-1 contributes the term of exactly
\* that position.
C5_OutsideIgnored ==
    (Returned /\ ~start_positions.none /\ ~end_positions.none) =>
        /\ IgnoresOutside(LossOf(result).start_loss, start_positions)
        /\ IgnoresOutside(LossOf(result).end_loss, end_positions)

====
